---------------------------- MODULE Spec2Model ----------------------------
(***************************************************************************)
(* A model of src/backend/Main.py: one call of run_code (the host) and the *)
(* worker process it spawns (run_in_process with its tracer).              *)
(*                                                                         *)
(* Spec is the call on a platform where the module loads; WorkerSpec is    *)
(* the worker under every environment, with the name lookups of user code; *)
(* PairSpec is two calls in flight at once.                                *)
(*                                                                         *)
(* The evaluator (CPython's exec under sys.settrace) is the environment:   *)
(* it delivers trace events and lets user code write to the output buffer. *)
(* Python strings are TLA+ strings; an Optional value is a sequence of     *)
(* length 0 (None) or 1.                                                   *)
(***************************************************************************)
EXTENDS Integers, Sequences, FiniteSets, TLC

(***************************************************************************)
(* Bounds of the model.                                                    *)
(***************************************************************************)
\* line events the evaluator delivers from frames of the submitted source
MaxSteps == 3
\* characters user code writes in one run
MaxOut == 2
\* largest step index a request asks for
MaxStepIndex == 2
\* line events of each of two concurrent calls
MaxPairSteps == 2
\* writes of each of two concurrent calls
MaxPairOut == 1
\* what the pipe buffers before a send blocks, in the units of MsgSize
PipeCap == 3

(***************************************************************************)
(* Program constants.                                                      *)
(***************************************************************************)
\* repr(v)[:200]
ReprCap == 200

None == <<>>
Some(x) == <<x>>
\* Python's (o or "") for an Optional[str]
OrEmpty(o) == IF o = None THEN "" ELSE o[1]
\* Python's (s if s else None)
NoneIfEmpty(s) == IF s = "" THEN None ELSE Some(s)

Min(a, b) == IF a < b THEN a ELSE b

\* s[pos:] of a Python string, pos counted from 0
StrFrom(s, pos) == SubSeq(s, pos + 1, Len(s))
\* s[:n] of a Python string
StrTo(s, n) == SubSeq(s, 1, Min(Len(s), n))

RECURSIVE Rep(_)
\* a representation of n characters
Rep(n) ==
  IF n = 0 THEN ""
  ELSE IF n % 2 = 0 THEN LET half == Rep(n \div 2) IN half \o half
  ELSE "r" \o Rep(n - 1)
\* a representation one character longer than the cut keeps
LongRepr == "[" \o Rep(ReprCap - 1) \o "]"

(***************************************************************************)
(* The inputs of run_code and what the evaluator can deliver.              *)
(***************************************************************************)
\* code.splitlines() of the submitted sources
Sources == { <<>>, <<"x = 1", "print(x)">> }
\* the step argument: None or an index
StepChoices == {None} \cup {Some(k) : k \in -1..MaxStepIndex}
\* co_filename of a traced frame: the submitted source, or the worker's own file
FileNames == {"<string>", "Main.py"}
EventKinds == {"call", "line", "return", "exception"}
\* f_locals of a traced frame: name -> value representation.  At module
\* level the locals are the globals, which hold the allowlist under
\* __builtins__, alone until the first line has run and with the
\* program's x from then on.
ModuleLocals0 == [k \in {"__builtins__"} |-> "{'int': <class 'int'>}"]
ModuleLocals1 ==
  [k \in {"__builtins__", "x"} |->
     IF k = "x" THEN "1" ELSE "{'int': <class 'int'>}"]
\* a method's frame holds its own names, and the __class__ cell of super()
FunctionLocals ==
  [k \in {"n", "m", "__class__"} |->
     IF k = "n" THEN LongRepr
     ELSE IF k = "m" THEN Rep(ReprCap)
     ELSE "<class 'A'>"]
\* a comprehension's frame holds its loop variable and the iterator the
\* compiler passes it as the argument named .0
ComprehensionLocals ==
  [k \in {".0", "i"} |->
     IF k = "i" THEN "0" ELSE "<range_iterator object at 0x7f8ac18067c0>"]
\* what a frame shows at an event: f_lineno and f_locals, given the line
\* events delivered so far.  The first event of a run is the module's, at
\* its first line; an empty module has its only line event, where the
\* build delivers one, at line 0.
FrameStates(lines, seen) ==
  IF lines = <<>>
    THEN { [lineno |-> 0, f_locals |-> ModuleLocals0] }
  ELSE IF seen = <<>>
    THEN { [lineno |-> 1, f_locals |-> ModuleLocals0] }
    ELSE { [lineno |-> 1, f_locals |-> ModuleLocals1],
           [lineno |-> Len(lines), f_locals |-> FunctionLocals],
           [lineno |-> Len(lines), f_locals |-> ComprehensionLocals] }
\* what the i-th write of user code appends, i counted from 0
Chunk(i) == ToString(i)
\* faults exec raises before any frame runs, and from running user code
CompileFaults == { [kind |-> "SyntaxError", msg |-> "invalid syntax"] }
RuntimeFaults == { [kind |-> "ZeroDivisionError", msg |-> "division by zero"] }
\* faults that are no Exception: raise Exception.__bases__[0]("boom")
EscapingFaults == { [kind |-> "BaseException", msg |-> "boom"] }
NoFault == [kind |-> "", msg |-> ""]
\* platform.system()
Platforms == {"Linux", "Windows"}
\* the platforms whose Python has no resource module
NoResourceModule == {"Windows"}
\* the names user code looks up: one it binds, one of the allowlist, and
\* one that is neither
LookupNames == {"x", "print", "open"}

VARIABLES
  code_lines,       \* run_in_process: code.splitlines()
  step,             \* run_code: the step argument
  hpc,              \* run_code: where the host is
  result,           \* run_code: the CodeResponse returned (when hpc = "done")
  nstarts,          \* how many workers run_code has started
  wpc,              \* run_in_process: where the worker is
  steps,            \* run_in_process: steps
  output_buffer,    \* run_in_process: output_buffer.getvalue()
  last_output_pos,  \* run_in_process: last_output_pos
  error_msg,        \* run_in_process: error_msg
  fault,            \* the exception exec raised, caught at line 163
  lineEvents,       \* the line numbers of the line events of "<string>" frames
  pipe,             \* the messages written to the pipe, not yet received
  writers,          \* the processes holding the worker-side pipe end open
  sendInTime,       \* the worker called conn.send while the host was in join
  platform,         \* platform.system()
  limitable,        \* resource.setrlimit accepts the limit of line 54
  module,           \* whether Main.py has been imported
  mem_limit,        \* run_in_process: what became of the memory limit
  unresolved,       \* the names user code looked up and did not find
  nsent,            \* the messages the worker has passed to conn.send
  reaped,           \* the host has waited for the exited worker (waitpid)
  host_conns,       \* the pipe ends the host holds open
  calls,            \* PairSpec: the state of each of two concurrent calls
  buffers           \* PairSpec: the output buffers of the workers

vars == << code_lines, step, hpc, result, nstarts, wpc, steps, output_buffer,
           last_output_pos, error_msg, fault, lineEvents, pipe, writers,
           sendInTime, platform, limitable, module, mem_limit, unresolved,
           nsent, reaped, host_conns, calls, buffers >>

\* what no step of the call changes: its inputs, its environment, and the
\* other calls
fixedVars == << code_lines, step, platform, limitable, calls, buffers >>
hostVars == << hpc, result, nstarts, reaped, host_conns, module >>
workerVars == << wpc, steps, output_buffer, last_output_pos, error_msg, fault,
                 lineEvents, sendInTime, mem_limit, unresolved, nsent >>

\* ExecutionStep(line=..., code=..., variables=..., output=...)
ExecutionStep(line, text, variables, output) ==
  [line |-> line, code |-> text, variables |-> variables, output |-> output]

\* CodeResponse(steps=..., error=...)
CodeResponse(s, e) == [steps |-> s, error |-> e]

\* before run_code is called
InitCall ==
  /\ hpc = "start"
  /\ result = CodeResponse(<<>>, None)
  /\ nstarts = 0
  /\ wpc = "unborn"
  /\ steps = <<>>
  /\ output_buffer = ""
  /\ last_output_pos = 0
  /\ error_msg = None
  /\ fault = NoFault
  /\ lineEvents = <<>>
  /\ pipe = <<>>
  /\ writers = {}
  /\ sendInTime = FALSE
  /\ mem_limit = "unattempted"
  /\ unresolved = {}
  /\ nsent = 0
  /\ reaped = FALSE
  /\ host_conns = {}

\* the module loaded, on a platform that has what it imports and accepts
\* the memory limit; any of the sources, any step argument
Init ==
  /\ InitCall
  /\ code_lines \in Sources
  /\ step \in StepChoices
  /\ platform = "Linux"
  /\ limitable = TRUE
  /\ module = "loaded"
  /\ calls = <<>>
  /\ buffers = <<>>

(***************************************************************************)
(* The tracer, lines 125-155.  st is [steps, last_output_pos]; the output  *)
(* buffer is read, never written, by the tracer.                           *)
(***************************************************************************)
\* k.startswith("__") and k.endswith("__")
IsDunder(k) ==
  /\ Len(k) >= 2
  /\ SubSeq(k, 1, 2) = "__"
  /\ SubSeq(k, Len(k) - 1, Len(k)) = "__"

\* a snapshot that records the representations whole
SnapshotVarsUncut(f_locals) ==
  [k \in {n \in DOMAIN f_locals :
            /\ ~IsDunder(n)
            /\ n \notin {"output_buffer", "__builtins__"}}
     |-> f_locals[k]]

\* the dict comprehension of lines 133-138
SnapshotVars(f_locals) ==
  [k \in {n \in DOMAIN f_locals :
            /\ ~IsDunder(n)
            /\ n \notin {"output_buffer", "__builtins__"}}
     |-> StrTo(f_locals[k], ReprCap)]

\* code_lines[lineno - 1] if 0 <= lineno - 1 < len(code_lines) else "",
\* for the code_lines of a worker
LineTextOf(lines, lineno) ==
  IF 0 <= lineno - 1 /\ lineno - 1 < Len(lines)
    THEN lines[lineno]
    ELSE ""

LineText(lineno) == LineTextOf(code_lines, lineno)

\* current_value[last_output_pos:], for the buffer of a worker
NewOutputOf(buf, st) == StrFrom(buf, st.last_output_pos)

NewOutput(st) == NewOutputOf(output_buffer, st)

\* event == "line": lines 130-147, for the buffer and code_lines of a worker
TraceLineOn(buf, lines, st, lineno, f_locals) ==
  [steps |-> Append(st.steps,
                    ExecutionStep(lineno, LineTextOf(lines, lineno),
                                  SnapshotVars(f_locals),
                                  NoneIfEmpty(NewOutputOf(buf, st)))),
   last_output_pos |-> Len(buf)]

TraceLine(st, lineno, f_locals) ==
  TraceLineOn(output_buffer, code_lines, st, lineno, f_locals)

\* an extension that puts the new text before the old
PrependToLast(ss, extra) ==
  [ss EXCEPT ![Len(ss)].output = Some(extra \o OrEmpty(ss[Len(ss)].output))]

\* steps[-1].output = (steps[-1].output or "") + extra
AppendToLast(ss, extra) ==
  [ss EXCEPT ![Len(ss)].output = Some(OrEmpty(ss[Len(ss)].output) \o extra)]

\* a drain that assigns the increment instead of appending it
TraceDrainReplace(st) ==
  [steps |-> IF st.steps # <<>>
               THEN [st.steps EXCEPT ![Len(st.steps)].output = Some(NewOutput(st))]
               ELSE st.steps,
   last_output_pos |-> Len(output_buffer)]

\* a drain that attaches the increment to no step
TraceDrainDiscard(st) ==
  [steps |-> st.steps, last_output_pos |-> Len(output_buffer)]

\* event in ("return", "exception"): lines 149-153, for the buffer of a
\* worker
TraceDrainOn(buf, st) ==
  [steps |-> IF st.steps # <<>>
               THEN AppendToLast(st.steps, NewOutputOf(buf, st))
               ELSE st.steps,
   last_output_pos |-> Len(buf)]

TraceDrain(st) == TraceDrainOn(output_buffer, st)

\* a tracer without the co_filename test of line 127
TracerNoFilter(st, file, event, lineno, f_locals) ==
  IF event = "line" THEN TraceLine(st, lineno, f_locals)
  ELSE IF event \in {"return", "exception"} THEN TraceDrain(st)
  ELSE st

\* tracer(frame, event, arg)
Tracer(st, file, event, lineno, f_locals) ==
  IF file # "<string>" THEN st
  ELSE IF event = "line" THEN TraceLine(st, lineno, f_locals)
  ELSE IF event \in {"return", "exception"} THEN TraceDrain(st)
  ELSE st

TracerState == [steps |-> steps, last_output_pos |-> last_output_pos]

(***************************************************************************)
(* The worker, run_in_process.                                             *)
(***************************************************************************)
WorkerAlive == wpc \in {"setup", "exec", "except", "send", "send_blocked"}

\* user code is running: a line of the source has begun
UserRunning == lineEvents # <<>> /\ code_lines # <<>>

\* lines 52-56: setrlimit is tried except on Windows, and a refusal is
\* swallowed
SetLimit(plat, accepted) ==
  IF plat # "Windows"
    THEN IF accepted THEN "set" ELSE "failed"
    ELSE "skipped"

\* lines 45-56 and 59-160: the locals, the memory limit, the allowlist, settrace
WorkerSetup ==
  /\ wpc = "setup"
  /\ wpc' = "exec"
  /\ steps' = <<>>
  /\ output_buffer' = ""
  /\ last_output_pos' = 0
  /\ error_msg' = None
  /\ mem_limit' = SetLimit(platform, limitable)
  /\ UNCHANGED << fixedVars, hostVars, fault, lineEvents, pipe, writers,
                  sendInTime, unresolved, nsent >>

\* exec delivers a trace event to the tracer
EvalEvent ==
  /\ wpc = "exec"
  /\ \E file \in FileNames, event \in EventKinds,
        fr \in FrameStates(code_lines, lineEvents) :
       /\ \/ /\ file = "<string>"
             /\ event = "line"
             /\ Len(lineEvents) < MaxSteps
             /\ code_lines # <<>> \/ lineEvents = <<>>
          \/ /\ file = "<string>"
             /\ event = "call"
          \/ /\ file = "<string>"
             /\ event \in {"return", "exception"}
             /\ UserRunning
          \/ /\ file = "Main.py"
             /\ UserRunning
       /\ LET st == Tracer(TracerState, file, event, fr.lineno, fr.f_locals)
          IN /\ steps' = st.steps
             /\ last_output_pos' = st.last_output_pos
       /\ lineEvents' = IF file = "<string>" /\ event = "line"
                          THEN Append(lineEvents, fr.lineno)
                          ELSE lineEvents
  /\ UNCHANGED << fixedVars, hostVars, wpc, output_buffer, error_msg,
                  fault, pipe, writers, sendInTime, mem_limit, unresolved,
                  nsent >>

\* user code calls the allowlisted print, line 110
EvalWrite ==
  /\ wpc = "exec"
  /\ UserRunning
  /\ Len(output_buffer) < MaxOut
  /\ output_buffer' = output_buffer \o Chunk(Len(output_buffer))
  /\ UNCHANGED << fixedVars, hostVars, wpc, steps, last_output_pos,
                  error_msg, fault, lineEvents, pipe, writers, sendInTime,
                  mem_limit, unresolved, nsent >>

\* exec returns: the module frame's return event, then line 162.  CPython
\* delivers a line event before the first instruction of a frame runs, for
\* an empty module too (observed on 3.11: one line event at line 0).
ExecReturns ==
  /\ wpc = "exec"
  /\ lineEvents # <<>>
  /\ LET st == Tracer(TracerState, "<string>", "return", 0, <<>>)
     IN /\ steps' = st.steps
        /\ last_output_pos' = st.last_output_pos
  /\ wpc' = "send"
  /\ UNCHANGED << fixedVars, hostVars, output_buffer, error_msg, fault,
                  lineEvents, pipe, writers, sendInTime, mem_limit,
                  unresolved, nsent >>

\* exec raises before any frame runs: the source does not compile
ExecCompileFault ==
  /\ wpc = "exec"
  /\ lineEvents = <<>>
  /\ code_lines # <<>>
  /\ \E f \in CompileFaults : fault' = f
  /\ wpc' = "except"
  /\ UNCHANGED << fixedVars, hostVars, steps, output_buffer,
                  last_output_pos, error_msg, lineEvents, pipe, writers,
                  sendInTime, mem_limit, unresolved, nsent >>

\* user code raises an Exception nothing catches: the module frame's
\* exception and return events, then control reaches line 163
ExecRaises ==
  /\ wpc = "exec"
  /\ UserRunning
  /\ \E f \in RuntimeFaults : fault' = f
  /\ LET s1 == Tracer(TracerState, "<string>", "exception", 0, <<>>)
         s2 == Tracer(s1, "<string>", "return", 0, <<>>)
     IN /\ steps' = s2.steps
        /\ last_output_pos' = s2.last_output_pos
  /\ wpc' = "except"
  /\ UNCHANGED << fixedVars, hostVars, output_buffer, error_msg,
                  lineEvents, pipe, writers, sendInTime, mem_limit,
                  unresolved, nsent >>

\* an error string without the fault's kind
FormatErrorMsgOnly(e) == e.msg

\* f"{type(e).__name__} - {str(e)}", line 168
FormatError(e) == e.kind \o " - " \o e.msg

\* f"\nError: {type(e).__name__} - {str(e)}", line 166
FormatNote(e) == "\nError: " \o e.kind \o " - " \o e.msg

\* a handler that assigns the note to the last step's output
HandlerStepsReplace(ss, e) ==
  IF ss # <<>>
    THEN [ss EXCEPT ![Len(ss)].output = Some(FormatNote(e))]
    ELSE ss

\* the steps after the handler, lines 165-166
HandlerSteps(ss, e) == IF ss # <<>> THEN AppendToLast(ss, FormatNote(e)) ELSE ss

\* a handler that leaves error_msg unset
HandlerErrorDropped(ss, e) == None

\* a handler that sets error_msg whether or not a step exists
HandlerErrorAlways(ss, e) == Some(FormatError(e))

\* error_msg after the handler, lines 165-168
HandlerError(ss, e) == IF ss # <<>> THEN None ELSE Some(FormatError(e))

\* except Exception as e: lines 163-168
WorkerExcept ==
  /\ wpc = "except"
  /\ steps' = HandlerSteps(steps, fault)
  /\ error_msg' = HandlerError(steps, fault)
  /\ wpc' = "send"
  /\ UNCHANGED << fixedVars, hostVars, output_buffer, last_output_pos,
                  fault, lineEvents, pipe, writers, sendInTime, mem_limit,
                  unresolved, nsent >>

\* the size of the pickled (steps, error_msg), in units of one step
MsgSize(ss) == 1 + Len(ss)

\* conn.send((steps, error_msg)); conn.close(), lines 170-171, and the
\* process's exit.  A message the pipe cannot buffer is written in part and
\* send blocks until the host reads, which it does only after the worker
\* is no longer alive.
WorkerSend ==
  /\ wpc = "send"
  /\ sendInTime' = (hpc = "join")
  /\ nsent' = nsent + 1
  /\ IF MsgSize(steps) <= PipeCap
       THEN /\ pipe' = Append(pipe, [steps |-> steps, error |-> error_msg,
                                     complete |-> TRUE])
            /\ wpc' = "exited"
            /\ writers' = writers \ {"worker"}
       ELSE /\ pipe' = Append(pipe, [steps |-> steps, error |-> error_msg,
                                     complete |-> FALSE])
            /\ wpc' = "send_blocked"
            /\ writers' = writers
  /\ UNCHANGED << fixedVars, hostVars, steps, output_buffer,
                  last_output_pos, error_msg, fault, lineEvents, mem_limit,
                  unresolved >>

\* the process ends without reaching line 170, whatever the cause: it was
\* killed, it ran out of the memory line 54 leaves it, or user code raised
\* a BaseException that "except Exception" (line 163) does not catch
\* (ExecEscapes is this last cause with its fault and its trace events)
WorkerDie ==
  /\ wpc = "exec"
  /\ wpc' = "died"
  /\ writers' = writers \ {"worker"}
  /\ UNCHANGED << fixedVars, hostVars, steps, output_buffer,
                  last_output_pos, error_msg, fault, lineEvents, pipe,
                  sendInTime, mem_limit, unresolved, nsent >>

\* user code raises a fault that is no Exception and catches it nowhere:
\* the exception and return events, then the fault passes line 163 and
\* leaves run_in_process, and the process exits with lines 170-171 not run
ExecEscapes ==
  /\ wpc = "exec"
  /\ UserRunning
  /\ \E f \in EscapingFaults : fault' = f
  /\ LET s1 == Tracer(TracerState, "<string>", "exception", 0, <<>>)
         s2 == Tracer(s1, "<string>", "return", 0, <<>>)
     IN /\ steps' = s2.steps
        /\ last_output_pos' = s2.last_output_pos
  /\ wpc' = "died"
  /\ writers' = writers \ {"worker"}
  /\ UNCHANGED << fixedVars, hostVars, output_buffer, error_msg, lineEvents,
                  pipe, sendInTime, mem_limit, unresolved, nsent >>

\* the keys of safe_builtins, lines 59-122
safe_builtins ==
  { "int", "float", "str", "bool", "list", "dict", "set", "tuple",
    "frozenset", "complex", "len", "abs", "min", "max", "sum", "round",
    "pow", "range", "enumerate", "zip", "map", "filter", "reversed",
    "sorted", "any", "all", "iter", "next", "isinstance", "issubclass",
    "type", "id", "callable", "super", "chr", "ord", "bin", "hex", "oct",
    "print", "__build_class__", "__name__", "Exception", "ValueError",
    "TypeError", "IndexError", "KeyError" }

\* the names the program has bound in safe_globals: x, by its first line
UserGlobals == IF lineEvents = <<>> THEN {} ELSE {"x"}

\* a lookup that finds the allowlisted names only
ResolvesBuiltinsOnly(name) == name \in safe_builtins

\* a name lookup under exec(code, safe_globals, safe_locals), lines 158-161:
\* the globals, which are the locals, then safe_globals["__builtins__"]
Resolves(name) == name \in UserGlobals \/ name \in safe_builtins

\* the fault of a lookup that finds nothing
NameError(name) ==
  [kind |-> "NameError", msg |-> "name '" \o name \o "' is not defined"]

\* user code looks a name up.  A name found changes nothing.  A name not
\* found raises NameError, which an except clause of the program catches
\* (the exception event, and the program goes on) or nothing catches (the
\* exception and return events, then control reaches line 163).
EvalLoadName ==
  /\ wpc = "exec"
  /\ UserRunning
  /\ \E name \in LookupNames, handled \in BOOLEAN :
       IF Resolves(name)
         THEN UNCHANGED << wpc, steps, last_output_pos, fault, unresolved >>
         ELSE /\ unresolved' = unresolved \cup { << name, handled >> }
              /\ IF handled
                   THEN LET s1 == Tracer(TracerState, "<string>", "exception",
                                        0, <<>>)
                        IN /\ steps' = s1.steps
                           /\ last_output_pos' = s1.last_output_pos
                           /\ UNCHANGED << wpc, fault >>
                   ELSE LET s1 == Tracer(TracerState, "<string>", "exception",
                                        0, <<>>)
                            s2 == Tracer(s1, "<string>", "return", 0, <<>>)
                        IN /\ steps' = s2.steps
                           /\ last_output_pos' = s2.last_output_pos
                           /\ fault' = NameError(name)
                           /\ wpc' = "except"
  /\ UNCHANGED << fixedVars, hostVars, output_buffer, error_msg, lineEvents,
                  pipe, writers, sendInTime, mem_limit, nsent >>

(***************************************************************************)
(* The host, run_code.                                                     *)
(***************************************************************************)
\* lines 1-5: the imports of the module, of which "import resource" fails
\* where Python has no such module
ImportModule ==
  /\ module = "unloaded"
  /\ module' = IF platform \in NoResourceModule THEN "failed" ELSE "loaded"
  /\ UNCHANGED << fixedVars, hpc, result, nstarts, reaped, host_conns,
                  workerVars, pipe, writers >>

\* a timeout response that keeps the steps recorded so far
TimedOutKeepsSteps == CodeResponse(steps, Some("Execution timed out"))

\* line 182
TimedOut == CodeResponse(<<>>, Some("Execution timed out"))
\* line 187
FailedUnexpectedly == CodeResponse(<<>>, Some("Execution failed unexpectedly"))
\* f"Step {step} out of range"
OutOfRange(k) == CodeResponse(<<>>, Some("Step " \o ToString(k) \o " out of range"))

\* a selection that counts the steps from 1
SelectStepOneBased(ss, err, st) ==
  IF st # None
    THEN IF 0 < st[1] /\ st[1] <= Len(ss)
           THEN CodeResponse(<< ss[st[1]] >>, err)
           ELSE OutOfRange(st[1])
    ELSE CodeResponse(ss, err)

\* lines 190-196: the response for the received (ss, err) and the step argument
SelectStep(ss, err, st) ==
  IF st # None
    THEN IF 0 <= st[1] /\ st[1] < Len(ss)
           THEN CodeResponse(<< ss[st[1] + 1] >>, err)
           ELSE OutOfRange(st[1])
    ELSE CodeResponse(ss, err)

\* lines 175-177: Pipe(), Process(...), process.start().  The host keeps
\* child_conn, its own handle of the worker-side end, for the whole call.
HostStart ==
  /\ hpc = "start"
  /\ module = "loaded"
  /\ hpc' = "join"
  /\ nstarts' = nstarts + 1
  /\ wpc' = "setup"
  /\ writers' = {"host", "worker"}
  /\ host_conns' = {"parent_conn", "child_conn"}
  /\ UNCHANGED << fixedVars, result, steps, output_buffer,
                  last_output_pos, error_msg, fault, lineEvents, pipe,
                  sendInTime, mem_limit, unresolved, nsent, reaped, module >>

\* line 178: join returns because the worker has exited, which it has
\* found by waiting for it
HostJoinExit ==
  /\ hpc = "join"
  /\ ~WorkerAlive
  /\ hpc' = "is_alive"
  /\ reaped' = TRUE
  /\ UNCHANGED << fixedVars, result, nstarts, workerVars, pipe, writers,
                  host_conns, module >>

\* line 178: join returns because the two seconds have passed
HostJoinTimeout ==
  /\ hpc = "join"
  /\ WorkerAlive
  /\ hpc' = "is_alive"
  /\ UNCHANGED << fixedVars, result, nstarts, workerVars, pipe, writers,
                  reaped, host_conns, module >>

\* lines 180-182: is_alive(), terminate(), the timeout response.  is_alive
\* polls the worker, which reaps one that has exited; terminate signals the
\* worker and does not wait for it.
HostIsAlive ==
  /\ hpc = "is_alive"
  /\ IF WorkerAlive
       THEN /\ wpc' = "terminated"
            /\ writers' = writers \ {"worker"}
            /\ result' = TimedOut
            /\ hpc' = "done"
            /\ reaped' = reaped
       ELSE /\ hpc' = "recv"
            /\ reaped' = TRUE
            /\ UNCHANGED << wpc, writers, result >>
  /\ UNCHANGED << fixedVars, nstarts, steps, output_buffer,
                  last_output_pos, error_msg, fault, lineEvents, pipe,
                  sendInTime, mem_limit, unresolved, nsent, host_conns,
                  module >>

\* a whole message is in the pipe
MessageReady == pipe # <<>> /\ pipe[1].complete
\* nothing is in the pipe and no process holds the worker-side end
AtEOF == pipe = <<>> /\ writers = {}

\* lines 184-196: parent_conn.recv() returns a message or raises EOFError,
\* and blocks otherwise; then the step selection
HostRecv ==
  /\ hpc = "recv"
  /\ MessageReady \/ AtEOF
  /\ IF MessageReady
       THEN /\ result' = SelectStep(pipe[1].steps, pipe[1].error, step)
            /\ pipe' = Tail(pipe)
       ELSE /\ result' = FailedUnexpectedly
            /\ pipe' = pipe
  /\ hpc' = "done"
  /\ UNCHANGED << fixedVars, nstarts, workerVars, writers, reaped,
                  host_conns, module >>

HostNext ==
  \/ HostStart
  \/ HostJoinExit
  \/ HostJoinTimeout
  \/ HostIsAlive
  \/ HostRecv

WorkerNext ==
  \/ WorkerSetup
  \/ EvalEvent
  \/ EvalWrite
  \/ ExecReturns
  \/ ExecCompileFault
  \/ ExecRaises
  \/ WorkerExcept
  \/ WorkerSend
  \/ WorkerDie

Next == HostNext \/ WorkerNext

Spec == Init /\ [][Next]_vars

\* The host process is scheduled, and the worker's straight-line code runs
\* to its end; the evaluation of user code need not end.
FairSpec ==
  /\ Spec
  /\ WF_vars(HostNext)
  /\ WF_vars(WorkerSetup)
  /\ WF_vars(WorkerExcept)
  /\ WF_vars(WorkerSend)

\* the module not yet loaded, on any platform, the memory limit accepted
\* or refused; any of the sources, no step argument
WorkerInit ==
  /\ InitCall
  /\ code_lines \in Sources
  /\ step = None
  /\ platform \in Platforms
  /\ limitable \in BOOLEAN
  /\ module = "unloaded"
  /\ calls = <<>>
  /\ buffers = <<>>

\* the module's load, the worker's start, and the worker with the name
\* lookups of user code and the faults that are no Exception
WorkerStep ==
  \/ ImportModule
  \/ HostStart
  \/ WorkerNext
  \/ EvalLoadName
  \/ ExecEscapes

WorkerSpec == WorkerInit /\ [][WorkerStep]_vars

(***************************************************************************)
(* Two calls of run_code in flight at once (the endpoint runs them in      *)
(* threads of one process), neither timing out.  calls[c] holds what the   *)
(* one-call model keeps in hpc, wpc, steps, last_output_pos, pipe and      *)
(* result; events is the history of the evaluator of call c.               *)
(***************************************************************************)
Calls == {1, 2}
\* the sources of the calls, one line each, printing a constant
PairSources == { << "print(1)" >>, << "print(2)" >> }
\* what print writes for the source: its argument
Printed(lines) == SubSeq(lines[1], 7, 7)

oneCallVars == << code_lines, step, platform, limitable, hostVars, workerVars,
                 pipe, writers >>

\* a worker that writes to one buffer of the module
BufferShared(c) == 1

\* line 46: the buffer of the worker of call c is the StringIO that this
\* run of run_in_process created
BufferOf(c) == c

CallInit(lines) ==
  [code_lines |-> lines, hpc |-> "start", wpc |-> "unborn", steps |-> <<>>,
   last_output_pos |-> 0, pipe |-> <<>>, result |-> CodeResponse(<<>>, None),
   events |-> <<>>]

PairInit ==
  /\ InitCall
  /\ code_lines = <<>>
  /\ step = None
  /\ platform = "Linux"
  /\ limitable = TRUE
  /\ module = "loaded"
  /\ calls \in [Calls -> {CallInit(lines) : lines \in PairSources}]
  /\ buffers = [c \in Calls |-> ""]

CallState(c) ==
  [steps |-> calls[c].steps, last_output_pos |-> calls[c].last_output_pos]

\* lines 175-177 of call c
PairStart(c) ==
  /\ calls[c].hpc = "start"
  /\ calls' = [calls EXCEPT ![c].hpc = "join", ![c].wpc = "setup"]
  /\ UNCHANGED << buffers, oneCallVars >>

\* lines 45-49 in the worker of call c
PairSetup(c) ==
  /\ calls[c].wpc = "setup"
  /\ calls' = [calls EXCEPT ![c].wpc = "exec", ![c].steps = <<>>,
                            ![c].last_output_pos = 0]
  /\ buffers' = [buffers EXCEPT ![BufferOf(c)] = ""]
  /\ UNCHANGED oneCallVars

\* a line event in the worker of call c
PairLine(c) ==
  /\ calls[c].wpc = "exec"
  /\ Len(calls[c].steps) < MaxPairSteps
  /\ LET st == TraceLineOn(buffers[BufferOf(c)], calls[c].code_lines,
                           CallState(c), 1, ModuleLocals0)
     IN calls' = [calls EXCEPT ![c].steps = st.steps,
                               ![c].last_output_pos = st.last_output_pos,
                               ![c].events = Append(@, "line")]
  /\ UNCHANGED << buffers, oneCallVars >>

\* the print of line 110 in the worker of call c
PairWrite(c) ==
  /\ calls[c].wpc = "exec"
  /\ calls[c].steps # <<>>
  /\ Len(SelectSeq(calls[c].events, LAMBDA e : e = "write")) < MaxPairOut
  /\ buffers' = [buffers EXCEPT ![BufferOf(c)] =
                                 @ \o Printed(calls[c].code_lines)]
  /\ calls' = [calls EXCEPT ![c].events = Append(@, "write")]
  /\ UNCHANGED oneCallVars

\* exec returns in the worker of call c: the return event, then line 162
PairReturn(c) ==
  /\ calls[c].wpc = "exec"
  /\ calls[c].steps # <<>>
  /\ LET st == TraceDrainOn(buffers[BufferOf(c)], CallState(c))
     IN calls' = [calls EXCEPT ![c].steps = st.steps,
                               ![c].last_output_pos = st.last_output_pos,
                               ![c].events = Append(@, "return"),
                               ![c].wpc = "send"]
  /\ UNCHANGED << buffers, oneCallVars >>

\* lines 170-171 in the worker of call c, on the pipe of call c (line 175)
PairSend(c) ==
  /\ calls[c].wpc = "send"
  /\ calls' = [calls EXCEPT
                 ![c].pipe = Append(@, [steps |-> calls[c].steps,
                                        error |-> None]),
                 ![c].wpc = "exited"]
  /\ UNCHANGED << buffers, oneCallVars >>

\* lines 178-196 of call c, its worker having exited in time
PairRecv(c) ==
  /\ calls[c].hpc = "join"
  /\ calls[c].wpc = "exited"
  /\ calls' = [calls EXCEPT
                 ![c].result = SelectStep(calls[c].pipe[1].steps,
                                          calls[c].pipe[1].error, None),
                 ![c].pipe = Tail(@),
                 ![c].hpc = "done"]
  /\ UNCHANGED << buffers, oneCallVars >>

PairNext ==
  \E c \in Calls :
    \/ PairStart(c)
    \/ PairSetup(c)
    \/ PairLine(c)
    \/ PairWrite(c)
    \/ PairReturn(c)
    \/ PairSend(c)
    \/ PairRecv(c)

PairSpec == PairInit /\ [][PairNext]_vars

(***************************************************************************)
(* The claims.                                                             *)
(***************************************************************************)
RECURSIVE ConcatOutputs(_)
\* the outputs of the steps, in step order, None read as ""
ConcatOutputs(ss) ==
  IF ss = <<>> THEN ""
  ELSE ConcatOutputs(SubSeq(ss, 1, Len(ss) - 1)) \o OrEmpty(ss[Len(ss)].output)

\* C1: when the host, its wait over, finds the worker still alive (line 180),
\* its next step terminates the worker and returns steps = [] with error
\* "Execution timed out", whatever the step argument and the steps recorded.
C1_TimeoutResult ==
  [][ (hpc = "is_alive" /\ WorkerAlive /\ hpc' # hpc)
        => /\ hpc' = "done"
           /\ wpc' = "terminated"
           /\ result' = [steps |-> <<>>, error |-> << "Execution timed out" >>] ]_vars

\* a timeout returned to a request for a step, with steps already recorded
C1_Witness ==
  /\ hpc = "done"
  /\ wpc = "terminated"
  /\ steps # <<>>
  /\ step # None
  /\ result = [steps |-> <<>>, error |-> << "Execution timed out" >>]

\* C2: a worker that reaches conn.send while the host is still in join has
\* its (steps, error) pair returned by run_code, subject only to the step
\* selection, whatever the size of the message.
C2_RelaysResult ==
  (hpc = "done" /\ sendInTime) => result = SelectStep(steps, error_msg, step)

\* C3: a worker that exits without sending leads to run_code returning
\* steps = [] with error "Execution failed unexpectedly".
C3_CrashReported ==
  (wpc = "died" /\ hpc # "done")
    ~> (/\ hpc = "done"
        /\ result = [steps |-> <<>>,
                     error |-> << "Execution failed unexpectedly" >>])

\* C4: run_code never blocks for good: until it has returned, the host has a
\* step it can take (its position only advances, so it then returns).
C4_HostNeverBlocks == hpc = "done" \/ ENABLED HostNext

\* C5: for a received result of M steps and a requested index k, run_code
\* returns exactly step k when 0 <= k < M, and steps = [] with error
\* "Step k out of range" for every other k; with no index, all M steps in
\* order; and the worker was started once.
C5_StepSelection ==
  (hpc = "done" /\ wpc = "exited")
    => /\ nstarts = 1
       /\ step = None => result.steps = steps
       /\ step # None =>
            IF 0 <= step[1] /\ step[1] < Len(steps)
              THEN /\ Len(result.steps) = 1
                   /\ result.steps[1] = steps[step[1] + 1]
              ELSE /\ result.steps = <<>>
                   /\ result.error =
                        << "Step " \o ToString(step[1]) \o " out of range" >>

\* the last of two received steps, selected by its index
C5_Witness ==
  /\ hpc = "done"
  /\ wpc = "exited"
  /\ Len(steps) = 2
  /\ step = << 1 >>
  /\ result.steps = << steps[2] >>
  /\ steps[1] # steps[2]

\* C6: in a fault-free run the steps are, in number and in order, the line
\* events of the frames of the submitted source: step i holds the line of
\* the i-th such event, and no other event adds a step.
C6_StepsFollowLineEvents ==
  fault = NoFault
    => /\ Len(steps) = Len(lineEvents)
       /\ \A i \in 1..Len(steps) : steps[i].line = lineEvents[i]

\* a finished fault-free run whose lines repeat and go backwards
C6_Witness ==
  /\ wpc = "send"
  /\ fault = NoFault
  /\ Len(steps) = 3
  /\ steps[1].line = 1
  /\ steps[2].line = 2
  /\ steps[3].line = 1

\* C7: the outputs of the steps are consecutive slices of the output buffer:
\* while tracing, the steps' outputs in step order followed by what is still
\* pending are the buffer, and when a fault-free run has finished the steps'
\* outputs alone are the whole buffer.
C7_OutputPartition ==
  /\ (wpc \in {"exec", "except"} \/ fault = NoFault)
       => /\ last_output_pos <= Len(output_buffer)
          /\ ConcatOutputs(steps) \o StrFrom(output_buffer, last_output_pos)
               = output_buffer
  /\ (wpc \in {"send", "send_blocked", "exited"} /\ fault = NoFault)
       => ConcatOutputs(steps) = output_buffer

\* a finished fault-free run whose output is split over two steps, the
\* first of them not the first step
C7_Witness ==
  /\ wpc = "send"
  /\ fault = NoFault
  /\ Len(steps) = 3
  /\ steps[1].output = None
  /\ steps[2].output = << "0" >>
  /\ steps[3].output = << "1" >>
  /\ output_buffer = "01"

C9_ColonFormat ==
  (pipe # <<>> /\ fault # NoFault /\ lineEvents = <<>>)
    => /\ pipe[1].steps = <<>>
       /\ pipe[1].error = << fault.kind \o ": " \o fault.msg >>

\* C9: a fault before any step is sent as steps = [] and
\* error "{kind} - {message}".
C9_ErrorFormat ==
  (pipe # <<>> /\ fault # NoFault /\ lineEvents = <<>>)
    => /\ pipe[1].steps = <<>>
       /\ pipe[1].error = << fault.kind \o " - " \o fault.msg >>

\* the message of a source that does not compile
C9_Witness ==
  /\ pipe # <<>>
  /\ lineEvents = <<>>
  /\ fault.kind = "SyntaxError"
  /\ pipe[1].error = << "SyntaxError - invalid syntax" >>

\* C10: a fault raised after at least one step keeps the partial trace.
\* While the fault unwinds (the exception and return events) and in the
\* handler, the number of steps and every step before the last stay as they
\* were; the unwinding only extends the last step's output, and the handler
\* changes the last step only in its output, which becomes the previous
\* output followed by the note "\nError: {kind} - {message}".
C10_PartialTraceKept ==
  [][ /\ (wpc = "exec" /\ wpc' = "except" /\ steps # <<>>)
        => /\ Len(steps') = Len(steps)
           /\ \A i \in 1..(Len(steps) - 1) : steps'[i] = steps[i]
           /\ LET old == OrEmpty(steps[Len(steps)].output)
                  new == OrEmpty(steps'[Len(steps)].output)
              IN /\ Len(old) <= Len(new)
                 /\ StrTo(new, Len(old)) = old
      /\ (wpc = "except" /\ wpc' = "send" /\ steps # <<>>)
        => /\ Len(steps') = Len(steps)
           /\ \A i \in 1..(Len(steps) - 1) : steps'[i] = steps[i]
           /\ steps'[Len(steps)] =
                [steps[Len(steps)] EXCEPT
                   !.output = << OrEmpty(steps[Len(steps)].output)
                                 \o "\nError: " \o fault.kind \o " - "
                                 \o fault.msg >>] ]_vars

\* a fault after two steps, the note after the last step's own output
C10_Witness ==
  /\ wpc = "send"
  /\ fault # NoFault
  /\ Len(steps) = 2
  /\ steps[2].output = << "0\nError: ZeroDivisionError - division by zero" >>

\* s ends with t
EndsWith(s, t) ==
  /\ Len(t) <= Len(s)
  /\ SubSeq(s, Len(s) - Len(t) + 1, Len(s)) = t

RECURSIVE Alone(_, _)
\* what the worker of one call, run alone on the source, has recorded and
\* written after the evaluator's events: [steps, last_output_pos, buffer]
Alone(lines, events) ==
  IF events = <<>>
    THEN [steps |-> <<>>, last_output_pos |-> 0, buffer |-> ""]
    ELSE LET before == Alone(lines, SubSeq(events, 1, Len(events) - 1))
             e == events[Len(events)]
             st == [steps |-> before.steps,
                    last_output_pos |-> before.last_output_pos]
         IN IF e = "write"
              THEN [before EXCEPT !.buffer = @ \o Printed(lines)]
              ELSE LET after == IF e = "line"
                                  THEN TraceLineOn(before.buffer, lines, st, 1,
                                                   ModuleLocals0)
                                  ELSE TraceDrainOn(before.buffer, st)
                   IN [steps |-> after.steps,
                       last_output_pos |-> after.last_output_pos,
                       buffer |-> before.buffer]

\* C12: of two calls in flight at once, each has the steps and the output
\* of its own source only: at every moment the steps of a call are those
\* its worker would have recorded alone for the same events of its
\* evaluator, every step shows a line of the call's source and output the
\* source printed, and the result returned is the one of the call alone.
C12_CallsIsolated ==
  \A c \in DOMAIN calls :
    /\ calls[c].wpc \in {"exec", "send", "exited"}
         => calls[c].steps = Alone(calls[c].code_lines, calls[c].events).steps
    /\ \A i \in 1..Len(calls[c].steps) :
         /\ calls[c].steps[i].code = calls[c].code_lines[1]
         /\ \A j \in 1..Len(OrEmpty(calls[c].steps[i].output)) :
              SubSeq(OrEmpty(calls[c].steps[i].output), j, j)
                = Printed(calls[c].code_lines)
    /\ calls[c].hpc = "done"
         => calls[c].result =
              [steps |-> Alone(calls[c].code_lines, calls[c].events).steps,
               error |-> None]

\* both calls returned, each the output of its own source, the workers
\* having written in turn
C12_Witness ==
  /\ calls # <<>>
  /\ calls[1].hpc = "done"
  /\ calls[2].hpc = "done"
  /\ calls[1].code_lines = << "print(1)" >>
  /\ calls[2].code_lines = << "print(2)" >>
  /\ calls[1].result.steps[1].output = << "1" >>
  /\ Len(calls[1].result.steps) = 1
  /\ Len(calls[2].result.steps) = 2
  /\ calls[2].result.steps[2].output = << "2" >>

\* C13: a worker whose evaluation has ended, by returning or with an
\* unhandled fault of any kind, and that the host did not terminate, has
\* passed exactly one message to conn.send by the time it is gone, and has
\* closed its connection; no worker sends more than one.
C13_ExactlyOneMessage ==
  /\ nsent <= 1
  /\ (wpc = "exited" \/ (wpc = "died" /\ fault # NoFault))
       => /\ nsent = 1
          /\ "worker" \notin writers

\* C14: when run_code has its response, on whichever path, the worker is
\* no longer running and has been waited for, and the host holds neither
\* end of the pipe open.
C14_Reclaimed ==
  hpc = "done"
    => /\ ~WorkerAlive
       /\ reaped
       /\ host_conns = {}

C16_BestEffortLimit ==
  /\ lineEvents # <<>> => mem_limit \in {"set", "failed", "skipped"}
  /\ mem_limit \in {"failed", "skipped"} => wpc # "setup"
  /\ module # "failed"

\* C17: every value recorded in a step has at most 200 characters: the
\* representation of n, of 201 characters, is recorded as its first 200,
\* and the representations that have 200 characters (m) or fewer (x, i,
\* .0) are recorded as they are.
C17_ValuesCapped ==
  \A j \in 1..Len(steps) :
    \A k \in DOMAIN steps[j].variables :
      LET v == steps[j].variables[k]
      IN /\ Len(v) <= ReprCap
         /\ k = "n" => v = "[" \o Rep(ReprCap - 1) /\ Len(v) = ReprCap
         /\ k = "m" => v = Rep(ReprCap)
         /\ k = "x" => v = "1"
         /\ k = "i" => v = "0"
         /\ k = ".0" => v = "<range_iterator object at 0x7f8ac18067c0>"

\* a step of a method's frame, one value cut and one at the cap
C17_Witness ==
  \E j \in 1..Len(steps) :
    /\ {"n", "m"} \subseteq DOMAIN steps[j].variables
    /\ Len(steps[j].variables["n"]) = ReprCap
    /\ steps[j].variables["n"] # LongRepr
    /\ steps[j].variables["m"] = Rep(ReprCap)

\* C18: no response of run_code, and no message of the worker, has an
\* error together with steps: an error comes with steps = [], and a fault
\* raised after a step was recorded is returned with error null.
C18_ErrorMeansNoSteps ==
  /\ hpc = "done" =>
       /\ result.error # None => result.steps = <<>>
       /\ (wpc = "exited" /\ fault # NoFault /\ steps # <<>> /\ step = None)
            => result.error = None /\ result.steps = steps
  /\ \A j \in 1..Len(pipe) : pipe[j].error # None => pipe[j].steps = <<>>

\* the response to a fault raised after two steps: both steps, the note in
\* the last, and no error
C18_Witness ==
  /\ hpc = "done"
  /\ fault.kind = "ZeroDivisionError"
  /\ Len(result.steps) = 2
  /\ result.steps[2].output =
       << "\nError: ZeroDivisionError - division by zero" >>
  /\ result.error = None

\* C19: every step of the worker leaves the recorded steps in place: the
\* list keeps its steps and gains at most one, at the end; every step but
\* the last stays as it is, and so does the last when a step is appended
\* after it; the line, code and variables of the last step stay, and its
\* output only gains text after what it held.
C19_StepsAppendOnly ==
  [][ /\ Len(steps') \in {Len(steps), Len(steps) + 1}
      /\ \A j \in 1..(Len(steps) - 1) : steps'[j] = steps[j]
      /\ (steps # <<>> /\ Len(steps') = Len(steps) + 1)
           => steps'[Len(steps)] = steps[Len(steps)]
      /\ steps # <<>> =>
           LET old == steps[Len(steps)]
               new == steps'[Len(steps)]
           IN /\ new.line = old.line
              /\ new.code = old.code
              /\ new.variables = old.variables
              /\ Len(OrEmpty(old.output)) <= Len(OrEmpty(new.output))
              /\ SubSeq(OrEmpty(new.output), 1, Len(OrEmpty(old.output)))
                   = OrEmpty(old.output) ]_vars

\* three steps, the second frozen with its output, the last extended by the
\* note of a fault after its own output
C19_Witness ==
  /\ wpc = "send"
  /\ Len(steps) = 3
  /\ steps[1].output = None
  /\ steps[2].output = << "0" >>
  /\ steps[3].output = << "1\nError: ZeroDivisionError - division by zero" >>

\* C20: every key of every step's variables is a name the user's program
\* binds (x at module level, n and m in a method, i in a comprehension), no
\* binding of the interpreter or of the worker, and the first step of a run
\* has no variables.
C20_OnlyUserBindings ==
  /\ \A j \in 1..Len(steps) :
       DOMAIN steps[j].variables \subseteq {"x", "n", "m", "i"}
  /\ steps # <<>> => DOMAIN steps[1].variables = {}

=============================================================================
